---- MODULE Spec2Model ----
(***************************************************************************)
(* Cycle-level model of the 5-stage pipeline simulator: the Pipeline       *)
(* engine (Pipeline::step), the hazard detector (detect_hazard_for_ID),    *)
(* the branch predictor family and the driving loop of main().             *)
(*                                                                         *)
(* The repository holds two revisions of Pipeline::step.  They move the    *)
(* latches, the PC and the predictor identically and differ only in how    *)
(* control stalls are counted and in the bubble label:                     *)
(*   "pipeline_cpp"  src/src/pipeline.cpp : stalls.control += 2 when a     *)
(*                   misprediction is detected, nothing per flush cycle;   *)
(*   "part_002"      src/unnamed/part_002 : stalls.control++ in every      *)
(*                   flush cycle, and ex_bubble_label_ is maintained.      *)
(* The variable build_ selects the revision; it never changes in a run.    *)
(***************************************************************************)
EXTENDS Integers, Sequences, FiniteSets, TLC

\* ---------------------------------------------------------------- bounds
\* Longest program of the general initial states.
MaxProg == 3
\* Cycle ceiling of the driving loop (kMaxCycles, scaled down), also the
\* largest number of step() calls of a free caller.
MaxCycles == 13
\* Longest program of the hazard-chain initial states (no branch, no HALT).
MaxLine == 4
\* Longest program of the long-program initial states.
MaxLong == 6
\* Most predict/update calls made directly on a 1-bit or 2-bit predictor.
MaxCalls == 6
\* Most predict/update calls made directly on a tournament predictor.
MaxTournamentCalls == 7

\* ------------------------------------------------------- instruction model
Opcodes == {"ADD", "SUB", "LOAD", "STORE", "BEQ", "BNE", "NOP", "HALT"}

\* struct Instruction with its default member initialisers; op{} is the
\* first enumerator, ADD.
DefaultInstruction ==
    [op |-> "ADD", rd |-> -1, rs1 |-> -1, rs2 |-> -1, imm |-> 0, id |-> -1, pc |-> -1]

\* Instruction{Opcode::NOP}: the bubble the engine writes into a latch.
NopInstruction == [DefaultInstruction EXCEPT !.op = "NOP"]

\* A latch (IFID, IDEX, EXMEM, MEMWB): an instruction and a validity flag.
EmptyLatch == [ins |-> DefaultInstruction, valid |-> FALSE]

\* Variant of BubbleLatch: the bubble is marked valid.
BubbleLatch_Valid == [ins |-> NopInstruction, valid |-> TRUE]

\* The bubble of the arbitration and of a failed fetch: { Instruction{NOP}, false }.
BubbleLatch == [ins |-> NopInstruction, valid |-> FALSE]

\* load_trace: the fields each opcode's line sets; id and pc are the index
\* of the line among the instruction lines (nextId++ and pc++ together).
MkIns(sh, idx) ==
    [op |-> sh.op, rd |-> sh.rd, rs1 |-> sh.rs1, rs2 |-> sh.rs2, imm |-> sh.imm,
     id |-> idx, pc |-> idx]

Shape(op, rd, rs1, rs2, imm) == [op |-> op, rd |-> rd, rs1 |-> rs1, rs2 |-> rs2, imm |-> imm]

\* The instruction lines the general programs are drawn from.
BranchShapes ==
    { Shape("BEQ", -1, 1, 2, -1), Shape("BNE", -1, 2, 2, 1), Shape("BEQ", -1, 2, 2, -2) }
LineShapes ==
    { Shape("ADD", 1, 2, 2, 0), Shape("SUB", 2, 1, 2, 0), Shape("LOAD", 1, 2, -1, 0),
      Shape("NOP", -1, -1, -1, 0), Shape("HALT", -1, -1, -1, 0) }
Shapes == LineShapes \cup BranchShapes
\* Producers and consumers only: the programs of the hazard-chain states.
ChainShapes ==
    { Shape("ADD", 1, 2, 2, 0), Shape("SUB", 2, 1, 2, 0), Shape("LOAD", 1, 2, -1, 0),
      Shape("NOP", -1, -1, -1, 0) }
\* The lines of the long programs.
LongShapes ==
    { Shape("ADD", 1, 2, 2, 0), Shape("NOP", -1, -1, -1, 0), Shape("HALT", -1, -1, -1, 0),
      Shape("BNE", -1, 2, 2, 1) }

ProgramsOver(shapes, maxlen) ==
    UNION { { [i \in 1..n |-> MkIns(sh[i], i - 1)] : sh \in [1..n -> shapes] } : n \in 0..maxlen }

is_branch(ins) == ins.op = "BEQ" \/ ins.op = "BNE"

\* Variant of actual_taken_of: a branch is taken iff its immediate is positive.
actual_taken_of_Positive(ins) == ins.imm > 0

\* Ground truth of a branch: taken iff imm < 0.
actual_taken_of(ins) == ins.imm < 0

\* Variant of writes_reg: any opcode with a destination field >= 0 counts as
\* a writer.
writes_reg_AnyOpcode(ins) == ins.rd >= 0

\* --------------------------------------------------------- hazard detector
writes_reg(ins) == IF ins.op \in {"ADD", "SUB", "LOAD"} THEN ins.rd >= 0 ELSE FALSE

dest_reg(ins) == IF writes_reg(ins) THEN ins.rd ELSE -1

reads_r1(ins) ==
    IF ins.op \in {"ADD", "SUB", "LOAD", "STORE", "BEQ", "BNE"} THEN ins.rs1 >= 0 ELSE FALSE

reads_r2(ins) ==
    IF ins.op \in {"ADD", "SUB", "STORE", "BEQ", "BNE"} THEN ins.rs2 >= 0 ELSE FALSE

check_raw_match(id_ins, prod, valid) ==
    IF ~valid THEN FALSE
    ELSE LET rd == dest_reg(prod) IN
         IF rd < 0 THEN FALSE
         ELSE (reads_r1(id_ins) /\ id_ins.rs1 = rd) \/ (reads_r2(id_ins) /\ id_ins.rs2 = rd)

NoHazard == [stall |-> FALSE, kind |-> "None"]
RawHazard == [stall |-> TRUE, kind |-> "RAW"]

\* Variant of detect_hazard_for_ID: with forwarding a LOAD still in MEM stalls
\* its consumer as well.
detect_hazard_for_ID_LoadInMem(id_ins, id_valid, ex_ins, ex_valid, mem_ins, mem_valid, wb_ins, wb_valid, forwarding_on) ==
    IF ~id_valid THEN NoHazard
    ELSE IF forwarding_on
         THEN IF \/ ex_valid /\ ex_ins.op = "LOAD" /\ check_raw_match(id_ins, ex_ins, TRUE)
                 \/ mem_valid /\ mem_ins.op = "LOAD" /\ check_raw_match(id_ins, mem_ins, TRUE)
              THEN RawHazard ELSE NoHazard
         ELSE IF \/ check_raw_match(id_ins, ex_ins, ex_valid)
                 \/ check_raw_match(id_ins, mem_ins, mem_valid)
                 \/ check_raw_match(id_ins, wb_ins, wb_valid)
              THEN RawHazard ELSE NoHazard

\* Variant of detect_hazard_for_ID: without forwarding a producer in WB no
\* longer stalls its consumer.
detect_hazard_for_ID_IgnoreWB(id_ins, id_valid, ex_ins, ex_valid, mem_ins, mem_valid, wb_ins, wb_valid, forwarding_on) ==
    IF ~id_valid THEN NoHazard
    ELSE IF forwarding_on
         THEN IF ex_valid /\ ex_ins.op = "LOAD" /\ check_raw_match(id_ins, ex_ins, TRUE)
              THEN RawHazard ELSE NoHazard
         ELSE IF \/ check_raw_match(id_ins, ex_ins, ex_valid)
                 \/ check_raw_match(id_ins, mem_ins, mem_valid)
              THEN RawHazard ELSE NoHazard

\* Variant of detect_hazard_for_ID: the forwarding flag is not honoured, every
\* producer in EX, MEM or WB stalls its consumer.
detect_hazard_for_ID_NoBypass(id_ins, id_valid, ex_ins, ex_valid, mem_ins, mem_valid, wb_ins, wb_valid, forwarding_on) ==
    IF ~id_valid THEN NoHazard
    ELSE IF \/ check_raw_match(id_ins, ex_ins, ex_valid)
            \/ check_raw_match(id_ins, mem_ins, mem_valid)
            \/ check_raw_match(id_ins, wb_ins, wb_valid)
         THEN RawHazard ELSE NoHazard

\* Variant of detect_hazard_for_ID: with forwarding any producer in EX stalls
\* its consumer, not only a LOAD.
detect_hazard_for_ID_AnyProducerInEx(id_ins, id_valid, ex_ins, ex_valid, mem_ins, mem_valid, wb_ins, wb_valid, forwarding_on) ==
    IF ~id_valid THEN NoHazard
    ELSE IF forwarding_on
         THEN IF check_raw_match(id_ins, ex_ins, ex_valid)
              THEN RawHazard ELSE NoHazard
         ELSE IF \/ check_raw_match(id_ins, ex_ins, ex_valid)
                 \/ check_raw_match(id_ins, mem_ins, mem_valid)
                 \/ check_raw_match(id_ins, wb_ins, wb_valid)
              THEN RawHazard ELSE NoHazard

detect_hazard_for_ID(id_ins, id_valid, ex_ins, ex_valid, mem_ins, mem_valid, wb_ins, wb_valid, forwarding_on) ==
    IF ~id_valid THEN NoHazard
    ELSE IF forwarding_on
         THEN IF ex_valid /\ ex_ins.op = "LOAD" /\ check_raw_match(id_ins, ex_ins, TRUE)
              THEN RawHazard ELSE NoHazard
         ELSE IF \/ check_raw_match(id_ins, ex_ins, ex_valid)
                 \/ check_raw_match(id_ins, mem_ins, mem_valid)
                 \/ check_raw_match(id_ins, wb_ins, wb_valid)
              THEN RawHazard ELSE NoHazard

\* ------------------------------------------------------ branch predictors
\* std::unordered_map: a function whose DOMAIN is the set of keys present.
EmptyMap == [k \in {} |-> FALSE]
\* Variant of MapHas: find() never finds the key.
MapHas_Never(t, k) == FALSE

MapHas(t, k) == k \in DOMAIN t
MapPut(t, k, v) == [x \in (DOMAIN t) \cup {k} |-> IF x = k THEN v ELSE t[x]]
\* Variant of MapErase: erase() leaves the entry in place.
MapErase_Keeps(t, k) == t

MapErase(t, k) == [x \in (DOMAIN t) \ {k} |-> t[x]]
\* operator[]: a missing key is inserted with the value-initialised default.
MapTouch(t, k, dflt) == IF MapHas(t, k) THEN t ELSE MapPut(t, k, dflt)

NewStatic(taken) ==
    [kind |-> "static", total_predictions |-> 0, mispredictions |-> 0, always_taken_ |-> taken]
NewOneBit == [kind |-> "1bit", total_predictions |-> 0, mispredictions |-> 0, table |-> EmptyMap]
NewTwoBit == [kind |-> "2bit", total_predictions |-> 0, mispredictions |-> 0, table |-> EmptyMap]
NewTournament ==
    [kind |-> "tournament", total_predictions |-> 0, mispredictions |-> 0,
     onebit_ |-> NewOneBit, twobit_ |-> NewTwoBit, chooser_ |-> EmptyMap,
     last_p1_ |-> EmptyMap, last_p2_ |-> EmptyMap, used_two_ |-> EmptyMap,
     last_chosen_ |-> EmptyMap]
\* bp_ == nullptr
NoPredictor == [kind |-> "none"]

\* make_predictor: the predictor each accepted name builds, and no predictor.
Predictors ==
    { NoPredictor, NewStatic(FALSE), NewStatic(TRUE), NewOneBit, NewTwoBit, NewTournament }

\* Every predict/update below returns [obj |-> the object after the call,
\* ret |-> the value returned].
StaticPredictor_predict(o, pc) ==
    [obj |-> [o EXCEPT !.total_predictions = @ + 1], ret |-> o.always_taken_]

StaticPredictor_update(o, pc, actual) ==
    [obj |-> [o EXCEPT !.mispredictions = IF o.always_taken_ # actual THEN @ + 1 ELSE @],
     ret |-> FALSE]

OneBitPredictor_predict(o, pc) ==
    [obj |-> [o EXCEPT !.total_predictions = @ + 1],
     ret |-> IF MapHas(o.table, pc) THEN o.table[pc] ELSE FALSE]

\* Variant of OneBitPredictor_update: the first outcome seen for a pc is kept,
\* later ones do not overwrite it.
OneBitPredictor_update_KeepsFirst(o, pc, actual) ==
    LET p == OneBitPredictor_predict(o, pc) IN
    [obj |-> [p.obj EXCEPT !.mispredictions = IF p.ret # actual THEN @ + 1 ELSE @,
                           !.table = MapTouch(@, pc, actual)],
     ret |-> FALSE]

OneBitPredictor_update(o, pc, actual) ==
    LET p == OneBitPredictor_predict(o, pc) IN
    [obj |-> [p.obj EXCEPT !.mispredictions = IF p.ret # actual THEN @ + 1 ELSE @,
                           !.table = MapPut(@, pc, actual)],
     ret |-> FALSE]

TwoBitPredictor_predict(o, pc) ==
    LET t == MapTouch(o.table, pc, 0) IN
    [obj |-> [o EXCEPT !.total_predictions = @ + 1, !.table = t],
     ret |-> t[pc] >= 2]

\* Variant of TwoBitPredictor_update: the counter wraps around instead of
\* saturating.
TwoBitPredictor_update_Wraps(o, pc, actual) ==
    LET p == TwoBitPredictor_predict(o, pc)
        state == p.obj.table[pc]
        state1 == IF actual THEN (state + 1) % 4 ELSE (state + 3) % 4
    IN [obj |-> [p.obj EXCEPT !.mispredictions = IF p.ret # actual THEN @ + 1 ELSE @,
                              !.table = MapPut(@, pc, state1)],
        ret |-> FALSE]

TwoBitPredictor_update(o, pc, actual) ==
    LET p == TwoBitPredictor_predict(o, pc)
        state == p.obj.table[pc]
        state1 == IF actual THEN (IF state < 3 THEN state + 1 ELSE state)
                            ELSE (IF state > 0 THEN state - 1 ELSE state)
    IN [obj |-> [p.obj EXCEPT !.mispredictions = IF p.ret # actual THEN @ + 1 ELSE @,
                              !.table = MapPut(@, pc, state1)],
        ret |-> FALSE]

TournamentPredictor_predict(o, pc) ==
    LET p1 == OneBitPredictor_predict(o.onebit_, pc)
        p2 == TwoBitPredictor_predict(o.twobit_, pc)
        ch == MapTouch(o.chooser_, pc, 0)
        use_two == ch[pc] >= 2
        chosen_pred == IF use_two THEN p2.ret ELSE p1.ret
    IN [obj |-> [o EXCEPT !.onebit_ = p1.obj, !.twobit_ = p2.obj, !.chooser_ = ch,
                          !.last_p1_ = MapPut(@, pc, p1.ret),
                          !.last_p2_ = MapPut(@, pc, p2.ret),
                          !.used_two_ = MapPut(@, pc, use_two),
                          !.last_chosen_ = MapPut(@, pc, chosen_pred),
                          !.total_predictions = @ + 1],
        ret |-> chosen_pred]

\* Variant of TournamentPredictor_update: the chooser moves toward the 2-bit
\* component whenever that component was right, also when both were right.
TournamentPredictor_update_RewardsAgreement(o, pc, actual) ==
    LET lc == MapTouch(o.last_chosen_, pc, FALSE)
        chosen_pred == lc[pc]
        u1 == OneBitPredictor_update(o.onebit_, pc, actual)
        u2 == TwoBitPredictor_update(o.twobit_, pc, actual)
        ch == MapTouch(o.chooser_, pc, 0)
        l1 == MapTouch(o.last_p1_, pc, FALSE)
        l2 == MapTouch(o.last_p2_, pc, FALSE)
        p1 == l1[pc]
        p2 == l2[pc]
        c == ch[pc]
        c1 == IF p2 = actual THEN (IF c < 3 THEN c + 1 ELSE c)
              ELSE IF p1 = actual /\ p2 # actual THEN (IF c > 0 THEN c - 1 ELSE c)
              ELSE c
    IN [obj |-> [o EXCEPT !.mispredictions = IF chosen_pred # actual THEN @ + 1 ELSE @,
                          !.last_chosen_ = lc, !.onebit_ = u1.obj, !.twobit_ = u2.obj,
                          !.chooser_ = MapPut(ch, pc, c1), !.last_p1_ = l1, !.last_p2_ = l2],
        ret |-> FALSE]

TournamentPredictor_update(o, pc, actual) ==
    LET lc == MapTouch(o.last_chosen_, pc, FALSE)
        chosen_pred == lc[pc]
        u1 == OneBitPredictor_update(o.onebit_, pc, actual)
        u2 == TwoBitPredictor_update(o.twobit_, pc, actual)
        ch == MapTouch(o.chooser_, pc, 0)
        l1 == MapTouch(o.last_p1_, pc, FALSE)
        l2 == MapTouch(o.last_p2_, pc, FALSE)
        p1 == l1[pc]
        p2 == l2[pc]
        c == ch[pc]
        c1 == IF p2 = actual /\ p1 # actual THEN (IF c < 3 THEN c + 1 ELSE c)
              ELSE IF p1 = actual /\ p2 # actual THEN (IF c > 0 THEN c - 1 ELSE c)
              ELSE c
    IN [obj |-> [o EXCEPT !.mispredictions = IF chosen_pred # actual THEN @ + 1 ELSE @,
                          !.last_chosen_ = lc, !.onebit_ = u1.obj, !.twobit_ = u2.obj,
                          !.chooser_ = MapPut(ch, pc, c1), !.last_p1_ = l1, !.last_p2_ = l2],
        ret |-> FALSE]

\* The name make_predictor accepts for the variant of a predictor object.
VariantName(bp) ==
    CASE bp.kind = "static" -> (IF bp.always_taken_ THEN "static_t" ELSE "static_nt")
      [] bp.kind = "1bit" -> "1bit"
      [] bp.kind = "2bit" -> "2bit"
      [] bp.kind = "tournament" -> "tournament"

\* Variant of make_predictor: the dynamic predictors come back with the
\* history of an earlier run (a taken branch seen at pc 0) instead of empty.
make_predictor_Reused(name) ==
    CASE name = "static_nt" -> NewStatic(FALSE)
      [] name = "static_t" -> NewStatic(TRUE)
      [] name = "1bit" -> [NewOneBit EXCEPT !.table = MapPut(EmptyMap, 0, TRUE)]
      [] name = "2bit" -> [NewTwoBit EXCEPT !.table = MapPut(EmptyMap, 0, 3)]
      [] name = "tournament" ->
            [NewTournament EXCEPT !.onebit_.table = MapPut(EmptyMap, 0, TRUE)]
      [] OTHER -> NewStatic(FALSE)

\* make_predictor: a newly constructed predictor for a (lower-cased) name,
\* always-not-taken for any other name.
make_predictor(name) ==
    CASE name = "static_nt" -> NewStatic(FALSE)
      [] name = "static_t" -> NewStatic(TRUE)
      [] name = "1bit" -> NewOneBit
      [] name = "2bit" -> NewTwoBit
      [] name = "tournament" -> NewTournament
      [] OTHER -> NewStatic(FALSE)

\* bp_->predict(pc): the virtual call.
BranchPredictor_predict(o, pc) ==
    CASE o.kind = "static" -> StaticPredictor_predict(o, pc)
      [] o.kind = "1bit" -> OneBitPredictor_predict(o, pc)
      [] o.kind = "2bit" -> TwoBitPredictor_predict(o, pc)
      [] o.kind = "tournament" -> TournamentPredictor_predict(o, pc)

\* bp_->update(pc, taken): the virtual call.
BranchPredictor_update(o, pc, actual) ==
    CASE o.kind = "static" -> StaticPredictor_update(o, pc, actual)
      [] o.kind = "1bit" -> OneBitPredictor_update(o, pc, actual)
      [] o.kind = "2bit" -> TwoBitPredictor_update(o, pc, actual)
      [] o.kind = "tournament" -> TournamentPredictor_update(o, pc, actual)

\* --------------------------------------------------------- pipeline engine
VARIABLES
    prog_,                  \* the program (const std::vector<Instruction>&), 1-based here
    forwarding_,            \* forwarding flag
    bp_,                    \* the predictor object bp_ points to, or NoPredictor
    build_,                 \* which revision of Pipeline::step runs
    pc_,                    \* next fetch PC
    cycle_,
    halted_,
    ifid_, idex_, exmem_, memwb_,   \* the four latches
    last_wb_,               \* last_wb_ins_ / last_wb_valid_
    control_flush_bubbles_,
    pred_taken_by_id_,      \* instruction id -> predicted direction
    ex_bubble_label_,
    m_,                     \* Metrics
    loop_,                  \* main(): "running" inside the while loop, "done" after it
    obs_,                   \* what the last step() did (calls made, address read)
    wp_,                    \* marks of the latches holding a wrong-path instruction
    twin_                   \* a second Pipeline object with a predictor of its own

vars == << prog_, forwarding_, bp_, build_, pc_, cycle_, halted_, ifid_, idex_, exmem_,
           memwb_, last_wb_, control_flush_bubbles_, pred_taken_by_id_, ex_bubble_label_,
           m_, loop_, obs_, wp_, twin_ >>

Builds == {"pipeline_cpp", "part_002"}

\* The width of the counters of Metrics. The source's uint64_t wraps at 2^64;
\* the model wraps at 2^16, far above any count a bounded run reaches, so a
\* difference that would wrap in the source wraps here too.
CounterModulus == 2^16

\* Variant of UnsignedSub: the operands are exchanged.
UnsignedSub_Reversed(a, b) == (b - a) % CounterModulus

\* a - b on unsigned counters.
UnsignedSub(a, b) == (a - b) % CounterModulus

\* Metrics::bp_accuracy_pct, whole percent: 100.0 * (pred - mis) / pred, 0 when
\* nothing was predicted.
bp_accuracy_pct(m) ==
    IF m.bp_predictions # 0
    THEN (100 * UnsignedSub(m.bp_predictions, m.bp_mispredictions)) \div m.bp_predictions
    ELSE 0

NewMetrics ==
    [cycles |-> 0, retired |-> 0, bp_predictions |-> 0, bp_mispredictions |-> 0,
     stalls |-> [raw |-> 0, war |-> 0, waw |-> 0, control |-> 0]]

\* StallBreakdown::total
StallsTotal(s) == s.raw + s.war + s.waw + s.control

NoObs ==
    [mode |-> "init", predict_pc |-> -1, predict_ret |-> FALSE, update_pc |-> -1,
     fetch_index |-> -1, resolved |-> FALSE, mispredicted |-> FALSE, map_hit |-> FALSE,
     since_mis |-> 2, predicted_neg |-> 0, predicted_nonneg |-> 0, hz |-> NoHazard,
     update_taken |-> FALSE, calls |-> 0, trained |-> EmptyMap, paired |-> EmptyMap,
     pending |-> << >>]

\* Variant of RetireHalts: any valid instruction in MEM/WB halts the engine.
RetireHalts_AnyValid(memwb, halted) == halted \/ memwb.valid

\* Variant of RetireHalts: halted_ is assigned the test, not only set by it.
RetireHalts_NotSticky(memwb, halted) == memwb.valid /\ memwb.ins.op = "HALT"

\* Variant of RetireHalts: a valid NOP in MEM/WB halts the engine like a HALT.
RetireHalts_OnNop(memwb, halted) == halted \/ (memwb.valid /\ memwb.ins.op \in {"HALT", "NOP"})

\* Retire: a valid HALT in MEM/WB halts the engine.
RetireHalts(memwb, halted) == halted \/ (memwb.valid /\ memwb.ins.op = "HALT")

\* Variant of RetireCount: a valid NOP is counted as retired too.
RetireCount_CountsNop(memwb) == IF memwb.valid /\ memwb.ins.op # "HALT" THEN 1 ELSE 0

\* Variant of RetireCount: a valid HALT is counted as retired too.
RetireCount_CountsHalt(memwb) == IF memwb.valid /\ memwb.ins.op # "NOP" THEN 1 ELSE 0

\* Retire: what the step adds to m_.retired.
RetireCount(memwb) ==
    IF memwb.valid /\ memwb.ins.op # "HALT" /\ memwb.ins.op # "NOP" THEN 1 ELSE 0

\* Variant of Arbitrate: a data hazard takes the flush arm.
Arbitrate_FlushOnHazard(flush_bubbles, hz) == IF flush_bubbles > 0 \/ hz.stall THEN "flush" ELSE "advance"

\* The three-way arbitration of the step.
Arbitrate(flush_bubbles, hz) ==
    IF flush_bubbles > 0 THEN "flush" ELSE IF hz.stall THEN "stall" ELSE "advance"

BranchTarget(ins) == ins.pc + 1 + ins.imm
FallThrough(ins) == ins.pc + 1

\* Variant of PredictedFetchPc: the fetch goes on after the branch whatever
\* the prediction.
PredictedFetchPc_FallThrough(pred, ins) == ins.pc + 1

\* fetch_pc = pred ? target : fallth
PredictedFetchPc(pred, ins) == IF pred THEN BranchTarget(ins) ELSE FallThrough(ins)

\* Variant of RedirectPc: the redirect goes to the successor the branch did
\* not take.
RedirectPc_Inverted(actual, ins) == IF actual THEN FallThrough(ins) ELSE BranchTarget(ins)

\* pc_ = actual ? target : fallth
RedirectPc(actual, ins) == IF actual THEN BranchTarget(ins) ELSE FallThrough(ins)

\* The guard of the fetch: !halted_ && fetch_pc >= 0 && fetch_pc < prog_.size()
CanIndex(halted, fetch_pc, prog) == ~halted /\ fetch_pc >= 0 /\ fetch_pc < Len(prog)

\* control_flush_bubbles_ = 2 on a misprediction.
FlushBubbles == 2

\* What a detected misprediction adds to stalls.control.
ControlPerMispredict(build) == IF build = "pipeline_cpp" THEN 2 ELSE 0

\* Variant of ControlPerFlushCycle: both revisions count every flush cycle.
ControlPerFlushCycle_Always(build) == 1

\* What a flush cycle adds to stalls.control.
ControlPerFlushCycle(build) == IF build = "part_002" THEN 1 ELSE 0

\* ex_bubble_label_ after the arbitration.
BubbleLabel(build, mode, old) ==
    IF build = "part_002"
    THEN (CASE mode = "flush" -> "STALL_CTRL" [] mode = "stall" -> "STALL_RAW"
            [] mode = "advance" -> "")
    ELSE old

\* Variant of NextEx: only a flush cycle bubbles ID/EX.
NextEx_StallAdvances(mode, ifid) == IF mode = "flush" THEN BubbleLatch ELSE ifid

\* Variant of NextEx: a branch held in ID by a stall enters EX all the same.
NextEx_StalledBranchAdvances(mode, ifid) == IF mode = "advance" \/ (mode = "stall" /\ is_branch(ifid.ins)) THEN ifid ELSE BubbleLatch

\* Variant of NextEx: the instruction in ID enters EX in a stall or flush cycle too.
NextEx_NoBubble(mode, ifid) == ifid

\* MEMWB next_wb = { exmem_.ins, exmem_.valid }
next_wb(exmem) == [ins |-> exmem.ins, valid |-> exmem.valid]

\* Variant of next_mem: what leaves ID/EX enters EX/MEM marked invalid.
next_mem_Invalidates(idex) == [ins |-> idex.ins, valid |-> FALSE]

\* EXMEM next_mem = { idex_.ins, idex_.valid }
next_mem(idex) == [ins |-> idex.ins, valid |-> idex.valid]

\* next_ex: the ID->EX latch the arbitration leaves.
NextEx(mode, ifid) == IF mode = "advance" THEN ifid ELSE BubbleLatch

\* Variant of CyclesAdded: the cycle is counted only when the step did not
\* stall on a data hazard.
CyclesAdded_NotOnStall(mode) == IF mode = "stall" THEN 0 ELSE 1

\* Bookkeeping at the end of the step: cycle_++ and m_.cycles++, whatever the
\* arbitration chose.
CyclesAdded(mode) == 1

\* csv_row's ins_str: "-" for an invalid latch, else the opcode and the id.
ins_str(ins, v) == IF ~v THEN << "-" >> ELSE << ins.op, ins.id >>

\* The ID column of csv_row: part_002 shows the label over an invalid ID/EX
\* latch when the label is not empty; pipeline.cpp has no label.
id_cell(build, idex, label) ==
    IF build = "part_002" /\ ~idex.valid /\ label # "" THEN << label >>
    ELSE ins_str(idex.ins, idex.valid)

\* Variant of Mispredicts: every resolution counts as a misprediction.
Mispredicts_Always(predicted, actual) == TRUE

\* predicted != actual
Mispredicts(predicted, actual) == predicted # actual

\* The successor a branch has by its ground truth: pc+1+imm when the
\* immediate is negative, pc+1 otherwise.
CorrectSuccessor(ins) == IF ins.imm < 0 THEN ins.pc + 1 + ins.imm ELSE ins.pc + 1

\* History of redirects: the correct successor of the oldest mispredicted
\* branch since which no step has fetched, << >> when there is none. A step
\* that fetches (normal advance) ends the wait of the earlier branch, and a
\* misprediction found in a step with no branch waiting starts one.
PendingRedirect(old, mode, mis, ins) ==
    IF old # << >> /\ mode # "advance" THEN old
    ELSE IF mis THEN << CorrectSuccessor(ins) >>
    ELSE << >>

\* The members of one Pipeline object (with the predictor object it points
\* to) and the record of what its last step() did.
Engine ==
    [bp_ |-> bp_, pc_ |-> pc_, cycle_ |-> cycle_, halted_ |-> halted_, ifid_ |-> ifid_,
     idex_ |-> idex_, exmem_ |-> exmem_, memwb_ |-> memwb_, last_wb_ |-> last_wb_,
     control_flush_bubbles_ |-> control_flush_bubbles_,
     pred_taken_by_id_ |-> pred_taken_by_id_, ex_bubble_label_ |-> ex_bubble_label_,
     m_ |-> m_, obs_ |-> obs_, wp_ |-> wp_]

\* Pipeline::step() on the object s: its members after one whole cycle.
EngineStep(prog, forwarding, build, s) ==
    LET halted1 == RetireHalts(s.memwb_, s.halted_)
        hz == detect_hazard_for_ID(s.ifid_.ins, s.ifid_.valid, s.idex_.ins, s.idex_.valid,
                                   s.exmem_.ins, s.exmem_.valid, s.memwb_.ins, s.memwb_.valid,
                                   forwarding)
        mode == Arbitrate(s.control_flush_bubbles_, hz)
        next_ex == NextEx(mode, s.ifid_)
        do_predict == mode = "advance" /\ s.bp_.kind # "none" /\ s.ifid_.valid
                      /\ is_branch(s.ifid_.ins)
        p == BranchPredictor_predict(s.bp_, s.ifid_.ins.pc)
        bp1 == IF do_predict THEN p.obj ELSE s.bp_
        map1 == IF do_predict THEN MapPut(s.pred_taken_by_id_, s.ifid_.ins.id, p.ret)
                ELSE s.pred_taken_by_id_
        fetch_pc == IF do_predict THEN PredictedFetchPc(p.ret, s.ifid_.ins) ELSE s.pc_
        can_fetch == mode = "advance"
        do_fetch == can_fetch /\ CanIndex(halted1, fetch_pc, prog)
        next_if1 == IF ~can_fetch THEN s.ifid_
                    ELSE IF do_fetch THEN [ins |-> prog[fetch_pc + 1], valid |-> TRUE]
                    ELSE BubbleLatch
        pc1 == IF do_fetch THEN fetch_pc + 1 ELSE s.pc_
        cfb1 == IF mode = "flush" THEN s.control_flush_bubbles_ - 1
                ELSE s.control_flush_bubbles_
        resolve == s.idex_.valid /\ is_branch(s.idex_.ins) /\ s.bp_.kind # "none"
        actual == actual_taken_of(s.idex_.ins)
        map_hit == MapHas(map1, s.idex_.ins.id)
        predicted == IF map_hit THEN map1[s.idex_.ins.id] ELSE FALSE
        mis == resolve /\ Mispredicts(predicted, actual)
        u == BranchPredictor_update(bp1, s.idex_.ins.pc, actual)
        control1 == s.m_.stalls.control
                    + (IF mode = "flush" THEN ControlPerFlushCycle(build) ELSE 0)
                    + (IF mis THEN ControlPerMispredict(build) ELSE 0)
    IN  [halted_ |-> halted1,
         last_wb_ |-> s.memwb_,
         memwb_ |-> next_wb(s.exmem_),
         exmem_ |-> next_mem(s.idex_),
         idex_ |-> next_ex,
         ifid_ |-> IF mis THEN BubbleLatch ELSE next_if1,
         pc_ |-> IF mis THEN RedirectPc(actual, s.idex_.ins) ELSE pc1,
         control_flush_bubbles_ |-> IF mis THEN FlushBubbles ELSE cfb1,
         bp_ |-> IF resolve THEN u.obj ELSE bp1,
         pred_taken_by_id_ |-> IF resolve THEN MapErase(map1, s.idex_.ins.id) ELSE map1,
         ex_bubble_label_ |-> BubbleLabel(build, mode, s.ex_bubble_label_),
         m_ |-> [cycles |-> s.m_.cycles + CyclesAdded(mode),
                 retired |-> s.m_.retired + RetireCount(s.memwb_),
                 bp_predictions |-> s.m_.bp_predictions + (IF do_predict THEN 1 ELSE 0),
                 bp_mispredictions |-> s.m_.bp_mispredictions + (IF mis THEN 1 ELSE 0),
                 stalls |-> [raw |-> s.m_.stalls.raw + (IF mode = "stall" THEN 1 ELSE 0),
                             war |-> s.m_.stalls.war, waw |-> s.m_.stalls.waw,
                             control |-> control1]],
         cycle_ |-> s.cycle_ + CyclesAdded(mode),
         obs_ |-> [mode |-> mode,
                   predict_pc |-> IF do_predict THEN s.ifid_.ins.pc ELSE -1,
                   predict_ret |-> IF do_predict THEN p.ret ELSE FALSE,
                   update_pc |-> IF resolve THEN s.idex_.ins.pc ELSE -1,
                   fetch_index |-> IF do_fetch THEN fetch_pc ELSE -1,
                   resolved |-> resolve,
                   mispredicted |-> mis,
                   map_hit |-> resolve /\ map_hit,
                   since_mis |-> IF mis THEN 0
                                 ELSE IF s.obs_.since_mis < 2 THEN s.obs_.since_mis + 1 ELSE 2,
                   predicted_neg |-> s.obs_.predicted_neg
                        + (IF do_predict /\ s.ifid_.ins.imm < 0 THEN 1 ELSE 0),
                   predicted_nonneg |-> s.obs_.predicted_nonneg
                        + (IF do_predict /\ s.ifid_.ins.imm >= 0 THEN 1 ELSE 0),
                   hz |-> hz,
                   update_taken |-> resolve /\ actual,
                   calls |-> s.obs_.calls,
                   trained |-> s.obs_.trained,
                   paired |-> s.obs_.paired,
                   pending |-> PendingRedirect(s.obs_.pending, mode, mis, s.idex_.ins)],
         wp_ |-> [ex |-> mis /\ next_ex.valid, mem |-> s.wp_.ex, wb |-> s.wp_.mem,
                  ret |-> s.wp_.wb]]

\* pipe.step(): one whole cycle of the engine under observation.
Step ==
    \E n \in {EngineStep(prog_, forwarding_, build_, Engine)} :
        /\ halted_' = n.halted_
        /\ last_wb_' = n.last_wb_
        /\ memwb_' = n.memwb_
        /\ exmem_' = n.exmem_
        /\ idex_' = n.idex_
        /\ ifid_' = n.ifid_
        /\ pc_' = n.pc_
        /\ control_flush_bubbles_' = n.control_flush_bubbles_
        /\ bp_' = n.bp_
        /\ pred_taken_by_id_' = n.pred_taken_by_id_
        /\ ex_bubble_label_' = n.ex_bubble_label_
        /\ m_' = n.m_
        /\ cycle_' = n.cycle_
        /\ obs_' = n.obs_
        /\ wp_' = n.wp_
        /\ UNCHANGED << prog_, forwarding_, build_ >>

\* The state right after Pipeline's constructor, for a program and a predictor.
InitEngine(programs, predictors, forwardings, builds) ==
    /\ prog_ \in programs
    /\ forwarding_ \in forwardings
    /\ bp_ \in predictors
    /\ build_ \in builds
    /\ pc_ = 0
    /\ cycle_ = 0
    /\ halted_ = FALSE
    /\ ifid_ = EmptyLatch
    /\ idex_ = EmptyLatch
    /\ exmem_ = EmptyLatch
    /\ memwb_ = EmptyLatch
    /\ last_wb_ = [ins |-> NopInstruction, valid |-> FALSE]
    /\ control_flush_bubbles_ = 0
    /\ pred_taken_by_id_ = EmptyMap
    /\ ex_bubble_label_ = ""
    /\ m_ = NewMetrics
    /\ loop_ = "running"
    /\ obs_ = NoObs
    /\ wp_ = [ex |-> FALSE, mem |-> FALSE, wb |-> FALSE, ret |-> FALSE]
    /\ twin_ = [Engine EXCEPT !.bp_ = IF bp_.kind = "none" THEN NoPredictor
                                      ELSE make_predictor(VariantName(bp_))]

Init == InitEngine(ProgramsOver(Shapes, MaxProg), Predictors, BOOLEAN, Builds)

\* Hazard chains: no branch and no HALT, so no predictor is ever consulted.
InitChain == InitEngine(ProgramsOver(ChainShapes, MaxLine), {NoPredictor}, BOOLEAN, Builds)

\* Long programs; none of their lines reads a register another one writes, so
\* the forwarding flag has no effect on them.
InitLong ==
    InitEngine(ProgramsOver(LongShapes, MaxLong),
               {NoPredictor, NewStatic(FALSE), NewStatic(TRUE)}, {TRUE}, {"pipeline_cpp"})

\* The two-ADD program: [ADD r1 r2 r3, ADD r4 r1 r5, HALT].
ProgTwoAdds ==
    [i \in 1..3 |-> MkIns(<< Shape("ADD", 1, 2, 3, 0), Shape("ADD", 4, 1, 5, 0),
                             Shape("HALT", -1, -1, -1, 0) >>[i], i - 1)]

\* The backward-branch program: [BEQ r0 r0 -2, HALT].
ProgBackBranch ==
    [i \in 1..2 |-> MkIns(<< Shape("BEQ", -1, 0, 0, -2), Shape("HALT", -1, -1, -1, 0) >>[i],
                          i - 1)]

\* The named programs, with every predictor, both forwarding settings.
InitScenario == InitEngine({ProgTwoAdds, ProgBackBranch}, Predictors, BOOLEAN, Builds)

\* main(): while (!pipe.halted() && pipe.cycle() < kMaxCycles) pipe.step();
MainStep ==
    /\ loop_ = "running"
    /\ ~halted_ /\ cycle_ < MaxCycles
    /\ Step
    /\ UNCHANGED << loop_, twin_ >>

MainExit ==
    /\ loop_ = "running"
    /\ ~(~halted_ /\ cycle_ < MaxCycles)
    /\ loop_' = "done"
    /\ UNCHANGED << prog_, forwarding_, bp_, build_, pc_, cycle_, halted_, ifid_, idex_,
                    exmem_, memwb_, last_wb_, control_flush_bubbles_, pred_taken_by_id_,
                    ex_bubble_label_, m_, obs_, wp_, twin_ >>

\* A caller of the public step() that does not look at halted().
CallStep ==
    /\ loop_ = "running"
    /\ cycle_ < MaxCycles
    /\ Step
    /\ UNCHANGED << loop_, twin_ >>

Next == MainStep \/ MainExit

\* main() driving the engine.
Spec == Init /\ [][Next]_vars

\* step() called any number of times, also after halted.
NextStep == CallStep
SpecStep == Init /\ [][NextStep]_vars

\* Two engines built alike and stepped side by side, one step() each.
PairStep ==
    /\ loop_ = "running"
    /\ cycle_ < MaxCycles
    /\ Step
    /\ twin_' = EngineStep(prog_, forwarding_, build_, twin_)
    /\ UNCHANGED loop_

NextPair == PairStep
SpecPair == Init /\ [][NextPair]_vars

\* Hazard chains stepped until the pipeline has drained.
SpecChain == InitChain /\ [][NextStep]_vars

\* main() driving the engine on a long program.
SpecLong == InitLong /\ [][Next]_vars

\* ------------------------------------------------------------------ claims

\* --------------------------------------- the hazard detector called directly
\* Register fields of the arguments: absent (-1), r0 and r1.
DetectRegs == {-1, 0, 1}

\* ID-stage arguments: every opcode with every source register pair.
DetectConsumers ==
    { [DefaultInstruction EXCEPT !.op = op, !.rs1 = a, !.rs2 = b] :
        op \in Opcodes, a \in DetectRegs, b \in DetectRegs }

\* EX/MEM/WB arguments: producers and non-producers, some carrying a
\* destination field their opcode does not write.
DetectProducers ==
    { [ins |-> [DefaultInstruction EXCEPT !.op = "LOAD", !.rd = 0], valid |-> TRUE],
      [ins |-> [DefaultInstruction EXCEPT !.op = "LOAD", !.rd = 0], valid |-> FALSE],
      [ins |-> [DefaultInstruction EXCEPT !.op = "SUB", !.rd = 1], valid |-> TRUE],
      [ins |-> [DefaultInstruction EXCEPT !.op = "ADD", !.rd = -1], valid |-> TRUE],
      [ins |-> [DefaultInstruction EXCEPT !.op = "STORE", !.rd = 0], valid |-> TRUE],
      [ins |-> [DefaultInstruction EXCEPT !.op = "BEQ", !.rd = 1], valid |-> TRUE],
      [ins |-> [DefaultInstruction EXCEPT !.op = "HALT", !.rd = 0], valid |-> TRUE],
      [ins |-> NopInstruction, valid |-> TRUE] }

\* The arguments of a direct call detect_hazard_for_ID(...), held in the
\* latch variables of an engine that has not stepped.
InitDetect ==
    /\ prog_ = << >>
    /\ forwarding_ \in BOOLEAN
    /\ bp_ = NoPredictor
    /\ build_ = "pipeline_cpp"
    /\ pc_ = 0
    /\ cycle_ = 0
    /\ halted_ = FALSE
    /\ ifid_ \in { [ins |-> i, valid |-> v] : i \in DetectConsumers, v \in BOOLEAN }
    /\ idex_ \in DetectProducers
    /\ exmem_ \in DetectProducers
    /\ memwb_ \in DetectProducers
    /\ last_wb_ = [ins |-> NopInstruction, valid |-> FALSE]
    /\ control_flush_bubbles_ = 0
    /\ pred_taken_by_id_ = EmptyMap
    /\ ex_bubble_label_ = ""
    /\ m_ = NewMetrics
    /\ loop_ = "running"
    /\ obs_ = NoObs
    /\ wp_ = [ex |-> FALSE, mem |-> FALSE, wb |-> FALSE, ret |-> FALSE]
    /\ twin_ = Engine

\* One call of detect_hazard_for_ID on the arguments; the decision returned
\* is kept in obs_.hz.
DetectCall ==
    /\ obs_.mode = "init"
    /\ obs_' = [obs_ EXCEPT !.mode = "detect",
                            !.hz = detect_hazard_for_ID(ifid_.ins, ifid_.valid, idex_.ins,
                                                        idex_.valid, exmem_.ins, exmem_.valid,
                                                        memwb_.ins, memwb_.valid, forwarding_)]
    /\ UNCHANGED << prog_, forwarding_, bp_, build_, pc_, cycle_, halted_, ifid_, idex_,
                    exmem_, memwb_, last_wb_, control_flush_bubbles_, pred_taken_by_id_,
                    ex_bubble_label_, m_, loop_, wp_, twin_ >>

NextDetect == DetectCall
SpecDetect == InitDetect /\ [][NextDetect]_vars

\* ------------------------------------------- the predictors called directly
\* The branch addresses of the direct calls.
PredictorPcs == {0, 1}

\* A predictor object on its own, held in bp_ of an engine that never steps.
InitPredictorOnly(predictors) ==
    /\ prog_ = << >>
    /\ forwarding_ = TRUE
    /\ bp_ \in predictors
    /\ build_ = "pipeline_cpp"
    /\ pc_ = 0
    /\ cycle_ = 0
    /\ halted_ = FALSE
    /\ ifid_ = EmptyLatch
    /\ idex_ = EmptyLatch
    /\ exmem_ = EmptyLatch
    /\ memwb_ = EmptyLatch
    /\ last_wb_ = [ins |-> NopInstruction, valid |-> FALSE]
    /\ control_flush_bubbles_ = 0
    /\ pred_taken_by_id_ = EmptyMap
    /\ ex_bubble_label_ = ""
    /\ m_ = NewMetrics
    /\ loop_ = "running"
    /\ obs_ = NoObs
    /\ wp_ = [ex |-> FALSE, mem |-> FALSE, wb |-> FALSE, ret |-> FALSE]
    /\ twin_ = Engine

InitPredictor == InitPredictorOnly({NewOneBit, NewTwoBit})

\* A call made on a predictor: predict(pc) or update(pc, taken).
PredictOf(pc) == [op |-> "predict", pc |-> pc, taken |-> FALSE]
UpdateOf(pc, taken) == [op |-> "update", pc |-> pc, taken |-> taken]

\* The predictor object after a sequence of calls.
RECURSIVE AfterCalls(_, _)
AfterCalls(bp, calls) ==
    IF calls = << >> THEN bp
    ELSE LET c == Head(calls)
             r == IF c.op = "predict" THEN BranchPredictor_predict(bp, c.pc)
                  ELSE BranchPredictor_update(bp, c.pc, c.taken)
         IN AfterCalls(r.obj, Tail(calls))

\* Calls on pc 0 after which the 2-bit component alone is right: three taken
\* outcomes, then rounds of not-taken, predict, taken.
TwoBitWinsRound == << UpdateOf(0, FALSE), PredictOf(0), UpdateOf(0, TRUE) >>
TwoBitWinsTwice ==
    << UpdateOf(0, TRUE), UpdateOf(0, TRUE), UpdateOf(0, TRUE) >>
        \o TwoBitWinsRound \o TwoBitWinsRound

\* A tournament predictor: new, or after calls that moved the chooser of
\* pc 0 to 2 and to 3.
InitTournament ==
    InitPredictorOnly({ NewTournament,
                        AfterCalls(NewTournament, TwoBitWinsTwice),
                        AfterCalls(NewTournament, TwoBitWinsTwice \o TwoBitWinsRound) })

\* The call budget of a predictor of the given kind.
CallBudget(bp) == IF bp.kind = "tournament" THEN MaxTournamentCalls ELSE MaxCalls

\* bp->predict(pc), called directly; obs_ keeps the address and the answer
\* and, for a tournament predictor, what its two components answered.
PredictCall ==
    /\ obs_.calls < CallBudget(bp_)
    /\ \E pc \in PredictorPcs :
          LET r == BranchPredictor_predict(bp_, pc)
          IN  /\ bp_' = r.obj
              /\ obs_' = [obs_ EXCEPT !.mode = "predict", !.predict_pc = pc,
                                      !.predict_ret = r.ret, !.calls = @ + 1,
                                      !.paired =
                                          IF bp_.kind = "tournament"
                                          THEN MapPut(@, pc,
                                                 [p1 |-> OneBitPredictor_predict(bp_.onebit_, pc).ret,
                                                  p2 |-> TwoBitPredictor_predict(bp_.twobit_, pc).ret])
                                          ELSE @]
    /\ UNCHANGED << prog_, forwarding_, build_, pc_, cycle_, halted_, ifid_, idex_,
                    exmem_, memwb_, last_wb_, control_flush_bubbles_, pred_taken_by_id_,
                    ex_bubble_label_, m_, loop_, wp_, twin_ >>

\* bp->update(pc, taken), called directly; obs_ keeps the address and the
\* outcome, and the last outcome given for every address.
UpdateCall ==
    /\ obs_.calls < CallBudget(bp_)
    /\ \E pc \in PredictorPcs, taken \in BOOLEAN :
          LET r == BranchPredictor_update(bp_, pc, taken)
          IN  /\ bp_' = r.obj
              /\ obs_' = [obs_ EXCEPT !.mode = "update", !.update_pc = pc,
                                      !.update_taken = taken, !.calls = @ + 1,
                                      !.trained = MapPut(@, pc, taken)]
    /\ UNCHANGED << prog_, forwarding_, build_, pc_, cycle_, halted_, ifid_, idex_,
                    exmem_, memwb_, last_wb_, control_flush_bubbles_, pred_taken_by_id_,
                    ex_bubble_label_, m_, loop_, wp_, twin_ >>

NextPredictor == PredictCall \/ UpdateCall
SpecPredictor == InitPredictor /\ [][NextPredictor]_vars
SpecTournament == InitTournament /\ [][NextPredictor]_vars

\* main() driving the engine, the loop never pausing for ever: the program is
\* sequential, so an iteration that can run does run.
SpecLive == Init /\ [][Next]_vars /\ WF_vars(Next)

\* Cycles that let every hazard chain drain: a line is fetched at most three
\* stall cycles after the one before it, and leaves WB five cycles later.
DrainCycles == 4 * MaxLine + 6

\* step() called on a hazard chain until it has drained.
DrainStep ==
    /\ loop_ = "running"
    /\ cycle_ < DrainCycles
    /\ Step
    /\ UNCHANGED << loop_, twin_ >>

NextDrain == DrainStep

\* The caller keeps stepping: a step that can be made is made.
SpecDrain == InitChain /\ [][NextDrain]_vars /\ WF_vars(NextDrain)

\* main() driving the engine on the named programs.
SpecScenario == InitScenario /\ [][Next]_vars

\* C1: after any number of step() calls metrics.cycles >= metrics.retired, and
\* every step adds exactly one cycle and retires at most one instruction.
C1_CyclesBoundRetired ==
    /\ [](m_.cycles >= m_.retired)
    /\ [][/\ m_'.cycles = m_.cycles + 1
          /\ m_'.retired \in {m_.retired, m_.retired + 1}]_vars

\* Some instructions have retired and the pipeline has also stalled.
C1_Witness == m_.retired >= 2 /\ m_.stalls.raw >= 1 /\ m_.cycles > m_.retired

\* C2: stalls.total (RAW + control, WAR and WAW staying 0) never exceeds
\* metrics.cycles, also in the step that detects a misprediction and in a
\* step where a RAW stall and a branch resolution coincide.
C2_StallsBoundCycles ==
    /\ m_.stalls.war = 0 /\ m_.stalls.waw = 0
    /\ StallsTotal(m_.stalls) <= m_.cycles

\* The last step both stalled on a RAW hazard and detected a misprediction.
C2_Witness == obs_.mode = "stall" /\ obs_.mispredicted /\ m_.stalls.control >= 1

\* C3 (as stated): once no flush is pending, the control stall count is twice
\* the number of mispredictions.
C3_ControlIsTwicePerMispredict ==
    control_flush_bubbles_ = 0 => m_.stalls.control = 2 * m_.bp_mispredictions

\* C4 (as stated): no branch resolves in a step that starts with the flush
\* countdown of an earlier misprediction still active.
C4_NoResolveInsideFlush == ~(obs_.mode = "flush" /\ obs_.resolved)

\* C5 (as stated): an instruction fetched along the predicted path of a branch
\* that resolves as mispredicted never reaches WB, never retires or halts the
\* engine, and never trains the predictor.
C5_WrongPathDiscarded ==
    /\ ~(wp_.wb /\ memwb_.valid)
    /\ ~(wp_.ret /\ last_wb_.valid)
    /\ ~(wp_.mem /\ obs_.resolved)

\* Quantities of a program the claims speak about.
NonNopCount(prog) == Cardinality({i \in 1..Len(prog) : prog[i].op # "NOP"})
RetirableCount(prog) == Cardinality({i \in 1..Len(prog) : prog[i].op \notin {"NOP", "HALT"}})
NonNopUpToFirstHalt(prog) ==
    Cardinality({i \in 1..Len(prog) :
                    prog[i].op # "NOP" /\ \A j \in 1..(i - 1) : prog[j].op # "HALT"})
HasBackwardBranch(prog) == \E i \in 1..Len(prog) : is_branch(prog[i]) /\ prog[i].imm < 0
AlwaysTaken(bp) == bp.kind = "static" /\ bp.always_taken_
\* The register-level reading of "produces" and "consumes".
Produces(ins) == ins.op \in {"ADD", "SUB", "LOAD"} /\ ins.rd >= 0
Consumes(ins, r) ==
    \/ ins.op \in {"ADD", "SUB", "LOAD", "STORE", "BEQ", "BNE"} /\ ins.rs1 = r
    \/ ins.op \in {"ADD", "SUB", "STORE", "BEQ", "BNE"} /\ ins.rs2 = r
MaxOf(S) == CHOOSE x \in S : \A y \in S : y <= x
\* Every fetched instruction has left the pipeline and nothing is left to fetch.
Drained ==
    /\ cycle_ > 0 /\ pc_ >= Len(prog_)
    /\ ~ifid_.valid /\ ~idex_.valid /\ ~exmem_.valid /\ ~memwb_.valid

LoadUseInID ==
    /\ ifid_.valid /\ idex_.valid /\ idex_.ins.op = "LOAD" /\ idex_.ins.rd >= 0
    /\ Consumes(ifid_.ins, idex_.ins.rd)

\* C8: with forwarding, the consumer of a LOAD that is in EX is held in IF/ID
\* for exactly one step and advances in the next one; stalls.raw rises by
\* exactly 1, and by nothing else than a load-use pair.
C8_LoadUseOneStall ==
    [][forwarding_ =>
        /\ LoadUseInID =>
              /\ obs_'.mode = "stall" /\ ifid_' = ifid_ /\ ~idex_'.valid
              /\ exmem_' = idex_ /\ m_'.stalls.raw = m_.stalls.raw + 1
        /\ obs_.mode = "stall" =>
              /\ obs_'.mode = "advance" /\ idex_' = ifid_ /\ idex_'.valid
              /\ exmem_'.valid = FALSE /\ memwb_'.ins.op = "LOAD"
              /\ m_'.stalls.raw = m_.stalls.raw
        /\ m_'.stalls.raw # m_.stalls.raw => LoadUseInID]_vars

\* The consumer has just advanced to EX behind the bubble, the LOAD is in MEM/WB.
C8_Witness ==
    /\ forwarding_ /\ obs_.mode = "advance" /\ m_.stalls.raw = 1
    /\ idex_.valid /\ ~exmem_.valid
    /\ memwb_.valid /\ memwb_.ins.op = "LOAD" /\ Consumes(idex_.ins, memwb_.ins.rd)

\* The instructions of a program that read a register written by one of the
\* three instructions before them.
Dependents(prog) ==
    {i \in 1..Len(prog) :
        \E j \in 1..(i - 1) : i - j <= 3 /\ Produces(prog[j]) /\ Consumes(prog[i], prog[j].rd)}

\* The step in which instruction i of a straight-line program leaves ID when
\* it must wait until every producer it reads from has left WB: one step
\* after its predecessor, and four steps after each such producer.
RECURSIVE LeaveID(_, _)
LeaveID(prog, i) ==
    IF i = 0 THEN 1
    ELSE MaxOf({LeaveID(prog, i - 1) + 1}
               \cup {LeaveID(prog, j) + 4 :
                        j \in {k \in 1..(i - 1) :
                                  Produces(prog[k]) /\ Consumes(prog[i], prog[k].rd)}})

\* C9 (as stated): without forwarding stalls.raw at the end of the run is the
\* number of dependent instructions, one stall each.
C9_OneStallPerDependent ==
    (Drained /\ ~forwarding_) => m_.stalls.raw = Cardinality(Dependents(prog_))

\* C9 (amended): without forwarding a dependent instruction is held in ID
\* until each producer it reads from has left WB, so stalls.raw counts stall
\* cycles: 3 for a consumer directly behind its producer, 2 at distance two,
\* 1 at distance three, less the stalls of the instructions in between.
C9_StallsUntilProducerLeavesWB ==
    (Drained /\ ~forwarding_)
        => m_.stalls.raw = LeaveID(prog_, Len(prog_)) - (Len(prog_) + 1)

\* A producer and its consumer directly behind it have drained.
C9_Witness ==
    /\ Drained /\ ~forwarding_ /\ Len(prog_) = 2 /\ Dependents(prog_) = {2}
    /\ m_.stalls.raw = 3

\* C10: the engine starts not halted, with the four latches invalid and PC 0;
\* a step sets halted exactly when MEM/WB held a valid HALT before it, and
\* halted, once true, stays true.
C10_HaltedOnlyByHaltInWB ==
    /\ (~halted_ /\ pc_ = 0 /\ ~ifid_.valid /\ ~idex_.valid /\ ~exmem_.valid /\ ~memwb_.valid)
    /\ [][/\ halted_' = (halted_ \/ (memwb_.valid /\ memwb_.ins.op = "HALT"))
          /\ halted_ => halted_']_vars

\* The engine halted in an earlier step and has been stepped again since.
C10_Witness ==
    /\ halted_ /\ ~(last_wb_.valid /\ last_wb_.ins.op = "HALT") /\ m_.retired >= 1

\* C11: a step raises the retired count by 1 exactly when the MEM/WB latch it
\* starts with is valid and holds neither NOP nor HALT; otherwise (valid HALT,
\* valid NOP, invalid latch) the retired count is unchanged.
C11_RetiredIffRealInstrInWB ==
    [][IF memwb_.valid /\ memwb_.ins.op \notin {"NOP", "HALT"}
       THEN m_'.retired = m_.retired + 1
       ELSE m_'.retired = m_.retired]_vars

\* A HALT has just passed WB uncounted after a counted instruction, with a
\* valid NOP now in MEM/WB.
C11_Witness ==
    /\ m_.retired = 1 /\ last_wb_.valid /\ last_wb_.ins.op = "HALT"
    /\ memwb_.valid /\ memwb_.ins.op = "NOP"

StaticNotTaken(bp) == bp.kind = "static" /\ ~bp.always_taken_
\* bp_predictions - bp_mispredictions
CorrectPredictions == m_.bp_predictions - m_.bp_mispredictions

\* C13 (as stated): at the end of a run the number of correct predictions is,
\* with always-not-taken, the number of predicted branches with a non-negative
\* immediate and, with always-taken, the number with a negative immediate.
C13_StaticAccuracy ==
    loop_ = "done" =>
        /\ StaticNotTaken(bp_) => CorrectPredictions = obs_.predicted_nonneg
        /\ AlwaysTaken(bp_) => CorrectPredictions = obs_.predicted_neg

\* C14: [ADD r1 r2 r3, ADD r4 r1 r5, HALT] run until halted: with forwarding
\* no RAW stall, 2 retired, the run ends after 7 cycles; without forwarding at
\* least one RAW stall, again 2 retired, and more than those 7 cycles.
C14_TwoAddsScenario ==
    (prog_ = ProgTwoAdds /\ loop_ = "done") =>
        /\ halted_ /\ m_.retired = 2
        /\ forwarding_ => (m_.stalls.raw = 0 /\ m_.cycles = 7)
        /\ ~forwarding_ => (m_.stalls.raw >= 1 /\ m_.cycles > 7)

\* The run without forwarding has ended halted, after RAW stalls.
C14_Witness ==
    /\ prog_ = ProgTwoAdds /\ loop_ = "done" /\ halted_ /\ ~forwarding_
    /\ m_.stalls.raw >= 1 /\ m_.retired = 2

\* C15: for [BEQ r0 r0 -2, HALT] with the always-not-taken predictor no
\* misprediction is counted before the BEQ resolves, and the step in which it
\* first resolves detects a misprediction and raises bp_mispredictions to 1.
C15_BackBranchMispredictsOnce ==
    [][(prog_ = ProgBackBranch /\ StaticNotTaken(bp_)) =>
          /\ (m_.bp_mispredictions = 0 /\ ~obs_'.resolved) => m_'.bp_mispredictions = 0
          /\ (m_.bp_mispredictions = 0 /\ obs_'.resolved) =>
                /\ obs_'.update_pc = 0 /\ obs_'.mispredicted
                /\ m_'.bp_mispredictions = 1]_vars

\* The BEQ has just resolved in EX as the first misprediction of the run.
C15_Witness ==
    /\ prog_ = ProgBackBranch /\ StaticNotTaken(bp_)
    /\ obs_.resolved /\ obs_.mispredicted /\ m_.bp_mispredictions = 1
    /\ m_.bp_predictions = 1

\* The ID argument reads register r in an operand position its opcode uses.
ReadsReg(ins, r) == r >= 0 /\ Consumes(ins, r)

\* C16: with forwarding the detector signals a stall, of kind RAW, exactly
\* when ID is valid, EX holds a valid LOAD with destination >= 0 and the ID
\* instruction reads that register; MEM, WB and a non-LOAD in EX never stall.
C16_ForwardingStallsOnlyLoadUse ==
    (obs_.mode = "detect" /\ forwarding_) =>
        /\ obs_.hz.stall <=>
              /\ ifid_.valid
              /\ idex_.valid /\ idex_.ins.op = "LOAD" /\ idex_.ins.rd >= 0
              /\ ReadsReg(ifid_.ins, idex_.ins.rd)
        /\ obs_.hz.kind = IF obs_.hz.stall THEN "RAW" ELSE "None"

\* The detector has stalled a STORE whose data register a LOAD in EX writes,
\* with producers of the same register in MEM and WB.
C16_Witness ==
    /\ obs_.mode = "detect" /\ forwarding_ /\ obs_.hz.stall
    /\ ifid_.ins.op = "STORE" /\ ifid_.ins.rs1 = -1 /\ ifid_.ins.rs2 = 0
    /\ exmem_.valid /\ exmem_.ins.op = "LOAD" /\ memwb_ = exmem_

\* A latch argument holds a valid producer of a register the ID argument reads.
ProducerFor(id_ins, latch) ==
    /\ latch.valid /\ latch.ins.op \in {"ADD", "SUB", "LOAD"} /\ latch.ins.rd >= 0
    /\ ReadsReg(id_ins, latch.ins.rd)

\* C17: without forwarding the detector signals a stall, of kind RAW, exactly
\* when ID is valid and EX, MEM or WB holds a valid ADD/SUB/LOAD with
\* destination >= 0 that the ID instruction reads; other opcodes, invalid
\* latches and an invalid ID never stall.
C17_NoForwardingStallsOnProducer ==
    (obs_.mode = "detect" /\ ~forwarding_) =>
        /\ obs_.hz.stall <=>
              /\ ifid_.valid
              /\ \/ ProducerFor(ifid_.ins, idex_)
                 \/ ProducerFor(ifid_.ins, exmem_)
                 \/ ProducerFor(ifid_.ins, memwb_)
        /\ obs_.hz.kind = IF obs_.hz.stall THEN "RAW" ELSE "None"

\* The detector has stalled on a producer in WB alone, behind a STORE in EX
\* and a HALT in MEM that carry the register in their destination field.
C17_Witness ==
    /\ obs_.mode = "detect" /\ ~forwarding_ /\ obs_.hz.stall
    /\ idex_.ins.op = "STORE" /\ exmem_.ins.op = "HALT"
    /\ memwb_.valid /\ memwb_.ins.op = "LOAD" /\ ifid_.ins.op = "BEQ"

\* The value a map of counters holds for a key: 0 for a key never touched
\* (operator[] value-initialises it).
CounterOf(t, pc) == IF MapHas(t, pc) THEN t[pc] ELSE 0

\* C18: 2-bit predictor: every counter stays in 0..3; predict returns taken
\* iff the counter of its pc is >= 2 and changes no counter; update with
\* taken adds 1 unless the counter is 3, update with not-taken subtracts 1
\* unless it is 0, and the counters of the other pcs are unchanged.
C18_TwoBitSaturates ==
    /\ [](bp_.kind = "2bit" => \A pc \in DOMAIN bp_.table : bp_.table[pc] \in 0..3)
    /\ [][bp_.kind = "2bit" =>
            /\ obs_'.mode = "predict" =>
                  /\ obs_'.predict_ret = (CounterOf(bp_.table, obs_'.predict_pc) >= 2)
                  /\ \A q \in PredictorPcs :
                        CounterOf(bp_'.table, q) = CounterOf(bp_.table, q)
            /\ obs_'.mode = "update" =>
                  LET c == CounterOf(bp_.table, obs_'.update_pc)
                  IN  /\ CounterOf(bp_'.table, obs_'.update_pc) =
                            IF obs_'.update_taken THEN (IF c = 3 THEN 3 ELSE c + 1)
                            ELSE (IF c = 0 THEN 0 ELSE c - 1)
                      /\ \A q \in PredictorPcs \ {obs_'.update_pc} :
                            CounterOf(bp_'.table, q) = CounterOf(bp_.table, q)]_vars

\* A taken update has just left the counter of pc 0 at its ceiling 3 while
\* the counter of pc 1 exists and is at its floor 0.
C18_Witness ==
    /\ bp_.kind = "2bit" /\ obs_.mode = "update" /\ obs_.update_pc = 0 /\ obs_.update_taken
    /\ CounterOf(bp_.table, 0) = 3 /\ bp_.total_predictions >= 5
    /\ MapHas(bp_.table, 1) /\ bp_.table[1] = 0

\* The answer a predictor would give for a pc, its state left alone.
AnswerFor(bp, pc) == BranchPredictor_predict(bp, pc).ret

\* C19: 1-bit predictor: predict returns the outcome passed to the most
\* recent update for the same pc, not-taken if there was none; an update for
\* one pc changes the prediction for no other pc.
C19_OneBitLastOutcome ==
    /\ [](bp_.kind = "1bit" =>
            /\ \A pc \in PredictorPcs :
                  AnswerFor(bp_, pc) =
                      IF MapHas(obs_.trained, pc) THEN obs_.trained[pc] ELSE FALSE
            /\ obs_.mode = "predict" =>
                  obs_.predict_ret =
                      IF MapHas(obs_.trained, obs_.predict_pc)
                      THEN obs_.trained[obs_.predict_pc] ELSE FALSE)
    /\ [][(bp_.kind = "1bit" /\ obs_'.mode = "update") =>
             \A q \in PredictorPcs \ {obs_'.update_pc} :
                 AnswerFor(bp_', q) = AnswerFor(bp_, q)]_vars

\* The last update for pc 0 said not-taken and the last for pc 1 taken, at
\* least two updates contradicted the stored outcome, and the predict call
\* just made for pc 0 answered not-taken while pc 1 still answers taken.
C19_Witness ==
    /\ bp_.kind = "1bit" /\ obs_.mode = "predict" /\ obs_.predict_pc = 0
    /\ ~obs_.predict_ret /\ bp_.mispredictions >= 2
    /\ MapHas(obs_.trained, 0) /\ ~obs_.trained[0]
    /\ MapHas(obs_.trained, 1) /\ obs_.trained[1] /\ AnswerFor(bp_, 1)

\* The saturating moves of a counter in 0..3.
Up(c) == IF c = 3 THEN 3 ELSE c + 1
Down(c) == IF c = 0 THEN 0 ELSE c - 1

\* C20: tournament predictor: every chooser stays in 0..3; predict answers
\* with the 2-bit component iff the chooser of its pc is >= 2, else with the
\* 1-bit component; update trains both components with the outcome, and moves
\* the chooser of its pc by one toward the component that was right only when
\* exactly one of the two answers of the paired predict call was right.
C20_TournamentChooser ==
    /\ [](bp_.kind = "tournament" =>
            \A pc \in DOMAIN bp_.chooser_ : bp_.chooser_[pc] \in 0..3)
    /\ [][bp_.kind = "tournament" =>
            /\ obs_'.mode = "predict" =>
                  LET pc == obs_'.predict_pc
                  IN  /\ obs_'.predict_ret =
                            IF CounterOf(bp_.chooser_, pc) >= 2
                            THEN CounterOf(bp_.twobit_.table, pc) >= 2
                            ELSE AnswerFor(bp_.onebit_, pc)
                      /\ \A q \in PredictorPcs :
                            CounterOf(bp_'.chooser_, q) = CounterOf(bp_.chooser_, q)
            /\ obs_'.mode = "update" =>
                  LET pc == obs_'.update_pc
                      taken == obs_'.update_taken
                      c == CounterOf(bp_.chooser_, pc)
                      t == CounterOf(bp_.twobit_.table, pc)
                  IN  /\ AnswerFor(bp_'.onebit_, pc) = taken
                      /\ CounterOf(bp_'.twobit_.table, pc) = IF taken THEN Up(t) ELSE Down(t)
                      /\ MapHas(obs_.paired, pc) =>
                            LET p1 == obs_.paired[pc].p1
                                p2 == obs_.paired[pc].p2
                            IN CounterOf(bp_'.chooser_, pc) =
                                  IF p2 = taken /\ p1 # taken THEN Up(c)
                                  ELSE IF p1 = taken /\ p2 # taken THEN Down(c)
                                  ELSE c
                      /\ \A q \in PredictorPcs \ {pc} :
                            CounterOf(bp_'.chooser_, q) = CounterOf(bp_.chooser_, q)]_vars

\* The chooser of pc 0 prefers the 2-bit component and an update has just
\* rewarded the 1-bit component, the only one right at the paired predict.
C20_Witness ==
    /\ bp_.kind = "tournament" /\ obs_.mode = "update" /\ obs_.update_pc = 0
    /\ MapHas(obs_.paired, 0) /\ obs_.paired[0].p1 = obs_.update_taken
    /\ obs_.paired[0].p2 # obs_.update_taken
    /\ CounterOf(bp_.chooser_, 0) = 2

\* No predicted branch is waiting in ID/EX for its resolution: every predict
\* call the engine made has had its update call.
AllPredictionsResolved == ~(idex_.valid /\ is_branch(idex_.ins))

\* C21 (as stated): once every predict call of the engine has had its paired
\* update, the predictor's total_predictions equals the number of predict
\* calls the engine made, which is the engine's bp_predictions.
C21_OnePredictionPerPredictCall ==
    (bp_.kind # "none" /\ AllPredictionsResolved)
        => bp_.total_predictions = m_.bp_predictions

\* The last two calls made on the predictor were both predict, for one pc.
SecondPredict == obs_.mode = "predict" /\ obs_'.mode = "predict"
                 /\ obs_'.predict_pc = obs_.predict_pc /\ obs_'.calls = obs_.calls + 1

\* C22 (as stated): a second predict(pc) before any update leaves the
\* predictor's counters and per-pc state as the first call left them, and
\* returns the same direction.
C22_PredictIdempotent ==
    [][SecondPredict => (bp_' = bp_ /\ obs_'.predict_ret = obs_.predict_ret)]_vars

\* The program contains no HALT instruction.
NoHalt(prog) == \A i \in 1..Len(prog) : prog[i].op # "HALT"

\* C23: the driving loop ends, after at most as many steps as the cycle
\* ceiling, either halted or with the cycle count at the ceiling; a program
\* without HALT never halts and its run ends exactly at the ceiling.
C23_LoopTerminates ==
    /\ <>(loop_ = "done")
    /\ [](cycle_ <= MaxCycles)
    /\ [](loop_ = "done" => (halted_ \/ cycle_ = MaxCycles))
    /\ [](NoHalt(prog_) => ~halted_)
    /\ []((NoHalt(prog_) /\ loop_ = "done") => cycle_ = MaxCycles)

\* The run of a HALT-free program with a branch has ended at the ceiling.
C23_Witness ==
    /\ loop_ = "done" /\ ~halted_ /\ cycle_ = MaxCycles /\ NoHalt(prog_)
    /\ NonNopCount(prog_) >= 2 /\ m_.bp_predictions >= 1

\* The last step fetched, and its fetch address was past the end of the program.
FetchedPastEnd == obs_.mode = "advance" /\ obs_.fetch_index = -1 /\ pc_ >= Len(prog_)

\* The latch holds nothing, or an instruction of the program under its own id.
FromProgram(l) == l.valid => (l.ins.id + 1 \in 1..Len(prog_) /\ l.ins = prog_[l.ins.id + 1])

\* C24: on a program without branches and without HALT, from a fetch past the
\* end on IF/ID stays invalid, every valid latch holds an instruction of the
\* program, every fetched instruction reaches WB, the four latches end up
\* invalid, and the retired count then equals the number of non-NOP lines.
C24_Drain ==
    /\ [](FetchedPastEnd => [](~ifid_.valid))
    /\ [](FromProgram(ifid_) /\ FromProgram(idex_) /\ FromProgram(exmem_) /\ FromProgram(memwb_))
    /\ \A i \in 0..MaxLine :
          []((ifid_.valid /\ ifid_.ins.id = i) => <>(memwb_.valid /\ memwb_.ins.id = i))
    /\ <>[](Drained /\ m_.retired = NonNopCount(prog_))

\* A chain whose last line was held in IF/ID by a stall has drained.
C24_Witness ==
    /\ Drained /\ FetchedPastEnd /\ Len(prog_) >= 2 /\ m_.stalls.raw >= 2
    /\ m_.retired = NonNopCount(prog_) /\ m_.retired >= 2

\* The address the step's arbitration chose to fetch from (fetch_pc).
FetchAddress ==
    IF obs_'.predict_pc # -1 THEN PredictedFetchPc(obs_'.predict_ret, ifid_.ins) ELSE pc_

\* C25: a step that fetches at an address outside [0, size), negative or past
\* the end, reads no line of the program, leaves an invalid bubble in IF/ID
\* and does not move the PC by its fetch; whenever a line is read its index is
\* within bounds.
C25_OutOfRangeFetchIsBubble ==
    [][/\ (obs_'.mode = "advance" /\ FetchAddress \notin 0..(Len(prog_) - 1))
            => /\ obs_'.fetch_index = -1
               /\ ~ifid_'.valid
               /\ (~obs_'.mispredicted => pc_' = pc_)
       /\ obs_'.fetch_index # -1 => obs_'.fetch_index \in 0..(Len(prog_) - 1)]_vars

\* A fetch at a negative address, left in the PC by a redirect to a branch
\* target before the program, has put a bubble in IF/ID.
C25_Witness ==
    /\ pc_ < 0 /\ obs_.mode = "advance" /\ obs_.fetch_index = -1 /\ ~ifid_.valid
    /\ ~halted_ /\ ~obs_.mispredicted

\* C26 (as stated): in the snapshot after a step the ID slot reads STALL_CTRL
\* when the step inserted a control-flush bubble, STALL_RAW when it inserted a
\* hazard-stall bubble, and after a normal advance the opcode and id of the
\* resident instruction or the empty mark.
C26_IdCellNamesCause ==
    /\ obs_.mode = "flush" => id_cell(build_, idex_, ex_bubble_label_) = << "STALL_CTRL" >>
    /\ obs_.mode = "stall" => id_cell(build_, idex_, ex_bubble_label_) = << "STALL_RAW" >>
    /\ obs_.mode = "advance"
          => id_cell(build_, idex_, ex_bubble_label_) = ins_str(idex_.ins, idex_.valid)


\* C27 (as stated): in every step with no flush countdown active in which the
\* hazard check signals a stall, ID/EX becomes an invalid bubble, nothing is
\* fetched, the PC and IF/ID keep their values, no predict call is made and the
\* RAW stall count rises by exactly 1.
C27_StallHoldsFrontEnd ==
    [][obs_'.mode = "stall"
          => /\ idex_' = BubbleLatch
             /\ obs_'.fetch_index = -1
             /\ pc_' = pc_
             /\ ifid_' = ifid_
             /\ obs_'.predict_pc = -1 /\ m_'.bp_predictions = m_.bp_predictions
             /\ m_'.stalls.raw = m_.stalls.raw + 1]_vars

\* C27 (amended): as stated, except that when the branch in EX is found
\* mispredicted in the same step, IF/ID is squashed to an invalid bubble and
\* the PC is redirected to the branch's correct successor.
C27_StallHoldsUnlessMispredict ==
    [][obs_'.mode = "stall"
          => /\ idex_' = BubbleLatch
             /\ obs_'.fetch_index = -1
             /\ obs_'.predict_pc = -1 /\ m_'.bp_predictions = m_.bp_predictions
             /\ m_'.stalls.raw = m_.stalls.raw + 1
             /\ ~obs_'.mispredicted => (pc_' = pc_ /\ ifid_' = ifid_)
             /\ obs_'.mispredicted
                   => /\ ifid_' = BubbleLatch
                      /\ pc_' = RedirectPc(actual_taken_of(idex_.ins), idex_.ins)]_vars

\* A stall step in which the branch in EX was found mispredicted: the consumer
\* held in ID was squashed.
C27_Witness ==
    /\ obs_.mode = "stall" /\ obs_.mispredicted /\ ~ifid_.valid
    /\ m_.stalls.raw >= 1 /\ control_flush_bubbles_ = FlushBubbles


\* C28 (as stated): in every step that starts with the flush countdown above 0,
\* ID/EX becomes an invalid bubble, nothing is fetched, no predict call is
\* made, the countdown goes down by 1, exactly one control stall is counted and
\* the RAW stall count is unchanged, also when the hazard check signals a stall.
C28_FlushHasPriority ==
    [][(control_flush_bubbles_ > 0 /\ cycle_' # cycle_)
          => /\ idex_' = BubbleLatch
             /\ obs_'.fetch_index = -1
             /\ obs_'.predict_pc = -1 /\ m_'.bp_predictions = m_.bp_predictions
             /\ control_flush_bubbles_' = control_flush_bubbles_ - 1
             /\ m_'.stalls.control = m_.stalls.control + 1
             /\ m_'.stalls.raw = m_.stalls.raw]_vars


\* A predictor is attached and IF/ID holds a valid BEQ or BNE.
BranchInID == bp_.kind # "none" /\ ifid_.valid /\ is_branch(ifid_.ins)

\* The fetch address the claim names for the step, from the state before it.
ClaimedFetchAddress ==
    IF BranchInID
    THEN (IF obs_'.predict_ret THEN ifid_.ins.pc + 1 + ifid_.ins.imm ELSE ifid_.ins.pc + 1)
    ELSE pc_

\* C29: in a normal-advance step with a predictor and a valid branch in IF/ID,
\* predict is called once, with the branch's pc, and the fetch address is
\* pc+1+imm if it answers taken, pc+1 otherwise; without a valid branch in
\* IF/ID the fetch address is the PC; a fetch that succeeds reads the line at
\* the fetch address and sets the PC to the fetch address + 1 (the value the
\* step ends with unless its resolution redirects the PC).
C29_AdvanceFetchAddress ==
    [][obs_'.mode = "advance"
          => /\ BranchInID
                   => /\ obs_'.predict_pc = ifid_.ins.pc
                      /\ obs_'.predict_ret = BranchPredictor_predict(bp_, ifid_.ins.pc).ret
                      /\ m_'.bp_predictions = m_.bp_predictions + 1
             /\ ~BranchInID
                   => obs_'.predict_pc = -1 /\ m_'.bp_predictions = m_.bp_predictions
             /\ (ClaimedFetchAddress \in 0..(Len(prog_) - 1) /\ ~halted_')
                   => /\ obs_'.fetch_index = ClaimedFetchAddress
                      /\ ~obs_'.mispredicted
                            => /\ pc_' = ClaimedFetchAddress + 1
                               /\ ifid_' = [ins |-> prog_[ClaimedFetchAddress + 1],
                                            valid |-> TRUE]
             /\ ~(ClaimedFetchAddress \in 0..(Len(prog_) - 1) /\ ~halted_')
                   => obs_'.fetch_index = -1]_vars

\* A step predicted the branch in ID taken and fetched the line at its target,
\* which is not the line after the branch.
C29_Witness ==
    /\ obs_.mode = "advance" /\ obs_.predict_pc # -1 /\ obs_.predict_ret
    /\ obs_.fetch_index # -1 /\ obs_.fetch_index # obs_.predict_pc + 1
    /\ ~obs_.mispredicted /\ pc_ = obs_.fetch_index + 1
    /\ ifid_.valid /\ ifid_.ins.pc = obs_.fetch_index


\* The branch in ID/EX resolves in the step: a predictor is attached.
ResolvesInEX == idex_.valid /\ is_branch(idex_.ins) /\ bp_.kind # "none"

\* The prediction recorded for the branch in ID/EX when it resolves: the one
\* stored under its id, by an earlier step or by this step's predict call for
\* another instance of the same line, and not-taken when none is stored.
RecordedPrediction ==
    IF obs_'.predict_pc # -1 /\ ifid_.ins.id = idex_.ins.id THEN obs_'.predict_ret
    ELSE IF MapHas(pred_taken_by_id_, idex_.ins.id) THEN pred_taken_by_id_[idex_.ins.id]
    ELSE FALSE

\* PC, countdown and IF/ID as the arbitration and the fetch of the step leave
\* them, before the resolution.
AfterFetch ==
    [pc |-> IF obs_'.fetch_index # -1 THEN obs_'.fetch_index + 1 ELSE pc_,
     cfb |-> IF obs_'.mode = "flush" THEN control_flush_bubbles_ - 1
             ELSE control_flush_bubbles_,
     ifid |-> IF obs_'.mode # "advance" THEN ifid_
              ELSE IF obs_'.fetch_index # -1
                   THEN [ins |-> prog_[obs_'.fetch_index + 1], valid |-> TRUE]
                   ELSE BubbleLatch]

\* C30: when the valid branch in ID/EX resolves with a recorded prediction
\* different from the ground truth (taken iff imm < 0), the step ends with the
\* countdown at 2, the PC at pc+1+imm if the branch is taken and at pc+1
\* otherwise, IF/ID invalid and one more misprediction, whatever the
\* arbitration did; when the prediction matches, PC, countdown and IF/ID are
\* as the arbitration and the fetch left them and bp_mispredictions is unchanged.
C30_ResolutionRedirects ==
    [][(ResolvesInEX /\ cycle_' # cycle_)
          => /\ RecordedPrediction # (idex_.ins.imm < 0)
                   => /\ control_flush_bubbles_' = 2
                      /\ pc_' = (IF idex_.ins.imm < 0 THEN idex_.ins.pc + 1 + idex_.ins.imm
                                 ELSE idex_.ins.pc + 1)
                      /\ ~ifid_'.valid
                      /\ m_'.bp_mispredictions = m_.bp_mispredictions + 1
             /\ RecordedPrediction = (idex_.ins.imm < 0)
                   => /\ pc_' = AfterFetch.pc
                      /\ control_flush_bubbles_' = AfterFetch.cfb
                      /\ ifid_' = AfterFetch.ifid
                      /\ m_'.bp_mispredictions = m_.bp_mispredictions]_vars

\* A misprediction found in a step whose arbitration had fetched a line: the
\* line was squashed and the PC redirected.
C30_Witness ==
    /\ obs_.mispredicted /\ obs_.mode = "advance" /\ obs_.fetch_index # -1
    /\ ~ifid_.valid /\ control_flush_bubbles_ = 2 /\ pc_ # obs_.fetch_index + 1


\* C31 (as stated): from the detection of a misprediction of a branch B until
\* the next fetch the PC stays at B's correct successor, no step before that
\* fetch fetches, and that fetch reads the line at B's correct successor, or
\* leaves a bubble when that address is out of range.
C31_FirstFetchAtCorrectTarget ==
    [][(obs_.pending # << >> /\ cycle_' # cycle_)
          => /\ pc_ = obs_.pending[1]
             /\ obs_'.mode # "advance" => (obs_'.fetch_index = -1 /\ pc_' = obs_.pending[1])
             /\ obs_'.mode = "advance"
                   => IF obs_.pending[1] \in 0..(Len(prog_) - 1) /\ ~halted_'
                      THEN obs_'.fetch_index = obs_.pending[1]
                      ELSE obs_'.fetch_index = -1]_vars


\* C32: the step in which a branch resolves removes that branch's entry from
\* the predicted-direction map, mispredicted or not; after every step the map
\* holds at most one entry, and an entry it holds is under the id of the valid
\* branch in ID/EX.
C32_MapHoldsOnlyBranchInEX ==
    [][cycle_' # cycle_
          => /\ ResolvesInEX => ~MapHas(pred_taken_by_id_', idex_.ins.id)
             /\ Cardinality(DOMAIN pred_taken_by_id_') <= 1
             /\ \A k \in DOMAIN pred_taken_by_id_' :
                   idex_'.valid /\ is_branch(idex_'.ins) /\ idex_'.ins.id = k]_vars

\* A step resolved one branch, now in EX/MEM, and predicted another, now in
\* ID/EX: the map holds the entry of the second only.
C32_Witness ==
    /\ obs_.resolved /\ exmem_.valid /\ is_branch(exmem_.ins)
    /\ idex_.valid /\ is_branch(idex_.ins) /\ idex_.ins.id # exmem_.ins.id
    /\ DOMAIN pred_taken_by_id_ = {idex_.ins.id}


\* C33 (as stated): a predict(pc) made in one step is followed by exactly one
\* update, with the same pc, in the next step; no update is made without that
\* predict in the step before; a valid branch held in ID by a stall or a flush
\* is not predicted in that step.
C33_OnePredictOneUpdate ==
    [][cycle_' # cycle_
          => /\ obs_.predict_pc # -1 => obs_'.update_pc = obs_.predict_pc
             /\ obs_'.update_pc # -1 => obs_.predict_pc = obs_'.update_pc
             /\ (obs_'.mode # "advance" /\ ifid_.valid /\ is_branch(ifid_.ins))
                   => (obs_'.predict_pc = -1 /\ m_'.bp_predictions = m_.bp_predictions)
             /\ (bp_.kind # "none" /\ obs_'.mode = "advance" /\ ifid_.valid /\ is_branch(ifid_.ins))
                   => obs_'.predict_pc = ifid_.ins.pc]_vars

\* A branch was held in ID by a stall, unpredicted, after an earlier branch
\* had been predicted and resolved.
C33_Witness ==
    /\ obs_.mode = "stall" /\ ifid_.valid /\ is_branch(ifid_.ins) /\ obs_.predict_pc = -1
    /\ bp_.kind # "none" /\ m_.bp_predictions >= 1 /\ bp_.total_predictions >= 1


\* The direction the resolving branch was compared with, read off the outcome
\* of the comparison with the ground truth.
ComparedPrediction ==
    IF obs_'.mispredicted THEN ~(idex_.ins.imm < 0) ELSE idex_.ins.imm < 0

C36_BackEndAlwaysShifts ==
    [][cycle_' # cycle_ => (memwb_' = exmem_ /\ exmem_' = idex_)]_vars

\* A stall step and a flush step have each moved a valid instruction on: the
\* flush cycle's into MEM/WB, now, and the stall cycle's before it.
C36_Witness ==
    /\ obs_.mode = "flush" /\ memwb_.valid /\ m_.stalls.raw >= 1
    /\ last_wb_.valid /\ m_.retired >= 1


\* The program has a HALT line and no branch with a negative immediate.
HaltAndNoBackwardBranch(prog) == ~NoHalt(prog) /\ ~HasBackwardBranch(prog)

\* C37 (as stated): a program with a HALT and no branch with a negative
\* immediate, under any predictor and either forwarding setting, eventually
\* reaches the halted state.
C37_EventuallyHalted == HaltAndNoBackwardBranch(prog_) => <>halted_


\* C38: without a predictor bp_predictions, bp_mispredictions, the control
\* stall count and the flush countdown are 0 in every reachable state, and
\* the fetches are sequential: a fetch reads the line at the PC and moves the
\* PC one up, and nothing else moves the PC.
C38_NoPredictorNoControl ==
    /\ [](bp_.kind = "none"
            => /\ m_.bp_predictions = 0 /\ m_.bp_mispredictions = 0
               /\ m_.stalls.control = 0 /\ control_flush_bubbles_ = 0
               /\ pred_taken_by_id_ = EmptyMap)
    /\ [][(bp_.kind = "none" /\ cycle_' # cycle_)
            => /\ ~obs_'.resolved /\ obs_'.predict_pc = -1
               /\ IF obs_'.fetch_index # -1
                  THEN obs_'.fetch_index = pc_ /\ pc_' = pc_ + 1
                  ELSE pc_' = pc_]_vars

\* Without a predictor a branch with a negative immediate has gone through EX
\* and the line after it was fetched next.
C38_Witness ==
    /\ bp_.kind = "none" /\ exmem_.valid /\ is_branch(exmem_.ins) /\ exmem_.ins.imm < 0
    /\ idex_.valid /\ idex_.ins.pc = exmem_.ins.pc + 1 /\ pc_ = exmem_.ins.pc + 3
    /\ obs_.fetch_index = exmem_.ins.pc + 2


\* C39: after any number of steps bp_mispredictions <= bp_predictions, the
\* unsigned difference of the accuracy computation has not wrapped, and the
\* accuracy lies within 0..100 percent.
C39_AccuracyInRange ==
    /\ m_.bp_mispredictions <= m_.bp_predictions
    /\ UnsignedSub(m_.bp_predictions, m_.bp_mispredictions)
          = m_.bp_predictions - m_.bp_mispredictions
    /\ bp_accuracy_pct(m_) \in 0..100

\* Three predictions, two of them found wrong: 33 percent.
C39_Witness ==
    /\ m_.bp_predictions = 3 /\ m_.bp_mispredictions = 2 /\ bp_accuracy_pct(m_) = 33

====
